---- MODULE Spec2Model ----
(***************************************************************************)
(* G4DarkBreM: the cross-section estimator of G4DarkBreMModel, the         *)
(* ElementXsecCache that memoizes it, the event library with its sampling  *)
(* cursor and the scaling loop of G4DarkBreMModel::scale, the A' particle  *)
(* definition, the dark brem process and two worker threads.               *)
(*                                                                         *)
(* Numbers.  A G4double carrying Geant4 internal units (energies, masses,  *)
(* A, Z) is held in thousandths: the double 1.0 is the integer MeV (1000), *)
(* so keV = 0.001 is 1 and GeV = 1000. is 1000000.  The quantities of the  *)
(* event library and of scale() are plain numbers of GeV and are held as   *)
(* integers of GeV.                                                        *)
(***************************************************************************)
EXTENDS Integers, Sequences, FiniteSets, TLC

VARIABLES
  theAPrime,           \* G4APrime::theAPrime: the A' mass [keV]
  muons_,              \* PrototypeModel::muons_
  threshold,           \* the constructor's argument threshold [GeV]
  threshold_,          \* G4DarkBreMModel::threshold_, held as threshold_*GeV [keV]
  model_,              \* ElementXsecCache::model_: "null" or "model"
  the_cache_,          \* ElementXsecCache::the_cache_: key -> cross section
  computed,            \* per key, the values the estimator returned to get()
  call,                \* the last call made: its operation, inputs and outcome
  nCalls,              \* number of calls made so far
  madGraphData_,       \* G4DarkBreMModel::madGraphData_: key -> samples
  currentDataPoints_,  \* G4DarkBreMModel::currentDataPoints_: key -> cursor
  maxIterations_,      \* G4DarkBreMModel::maxIterations_
  method_,             \* G4DarkBreMModel::method_
  pc,                  \* position of the model: new, failed, idle, retry, finish
  incident_energy,     \* scale(): argument incident_energy [GeV]
  lepton_mass,         \* scale(): argument lepton_mass [GeV]
  i,                   \* scale(): the retry counter i
  data,                \* scale(): the sample last drawn
  samplingE,           \* sample(): the key last selected
  diag,                \* scale(): the give-up diagnostic was written
  hist,                \* per key, the indices last read (a window of the key's size)
  err,                 \* the exception a call ended with, or "none"
  only_one_per_event_, \* G4DarkBremsstrahlung::only_one_per_event_
  global_bias_,        \* G4DarkBremsstrahlung::global_bias_
  cache_xsec_,         \* G4DarkBremsstrahlung::cache_xsec_
  processList,         \* the lepton's G4ProcessManager: each process and its activation
  track,               \* PostStepDoIt(): the track of the change last begun
  aParticleChange,     \* G4VDiscreteProcess::aParticleChange
  nBrems,              \* dark brems generated in the current event
  workers,             \* per worker thread: its cache and the cursors of its model
  staticMA,            \* the function-local statics MA, per function
  accessed             \* per location, the workers that read it and that wrote it

xsecVars == <<theAPrime, muons_, threshold, threshold_, model_, the_cache_, computed, call, nCalls>>
libVars == <<madGraphData_, currentDataPoints_, maxIterations_, method_, pc,
             incident_energy, lepton_mass, i, data, samplingE, diag, hist, err>>
procVars == <<only_one_per_event_, global_bias_, cache_xsec_, processList, track,
              aParticleChange, nBrems>>
workerVars == <<workers, staticMA, accessed>>
vars == <<xsecVars, libVars, procVars, workerVars>>

(***************************************************************************)
(* Units (CLHEP/Units/SystemOfUnits.h), in thousandths of the internal     *)
(* unit.                                                                   *)
(***************************************************************************)
keV == 1
MeV == 1000
GeV == 1000000

Max(a, b) == IF a >= b THEN a ELSE b

\* A double converted to unsigned long: the fraction is dropped.
Trunc(x) == x \div MeV

(***************************************************************************)
(* Bounds of the cross-section side.                                       *)
(***************************************************************************)
MaxCalls == 3
MaxIntegral == 1

\* configured 'threshold' values [GeV]
Thresholds == {0, 1}
\* A' masses [keV]: 10.25 MeV and 1 GeV
APrimeMasses == {10250, GeV}
\* kinetic energies [keV] around the thresholds 20.5 MeV and 2 GeV; 20.499, 20.5 and
\* 20.999 MeV share one cache bin
KineticEnergies == {0, 20499, 20500, 20999, 1999999, 2000000}
\* atomic masses and numbers <<A, Z>> of carbon and tungsten, in thousandths
Elements == {<<12011, 6000>>, <<183840, 74000>>}
\* what the numerical integration may give [GeV^-2], round-off included
Integrals == (0 - MaxIntegral)..MaxIntegral

(***************************************************************************)
(* G4DarkBreMModel: constructor and ComputeCrossSectionPerAtom.            *)
(***************************************************************************)
\* threshold_{std::max(threshold, 2.*G4APrime::APrime()->GetPDGMass()/CLHEP::GeV)}
\* t is the argument threshold [GeV], mass the A' mass [keV]; the result is
\* threshold_*GeV [keV].
ThresholdNoKinematic(t, mass) == t * GeV

ConstructThreshold(t, mass) == Max(t * GeV, 2 * mass)

\* G4double GeVtoPb = 3.894E08, times CLHEP::picobarn: cross sections are held in
\* units of 1e5 pb.
GeVtoPb == 3894

\* if (lepton_ke < keV or lepton_ke < threshold_*GeV) return 0.;
BelowThreshold(lepton_ke, thr) == lepton_ke < keV \/ lepton_ke < thr

\* cross = integrated_xsec * GeVtoPb * picobarn; if (cross < 0.) return 0.;
UnclampedCross(integrated_xsec) == integrated_xsec * GeVtoPb

ClampCross(integrated_xsec) ==
  LET cross == integrated_xsec * GeVtoPb
  IN  IF cross < 0 THEN 0 ELSE cross

\* ComputeCrossSectionPerAtom(lepton_ke, A, Z) of a model with threshold thr, where
\* integrated_xsec is the value of int_method::integrate over x (over x and theta
\* for muons).
ComputeCrossSectionPerAtom(lepton_ke, A, Z, thr, muons, integrated_xsec) ==
  IF BelowThreshold(lepton_ke, thr) THEN 0 ELSE ClampCross(integrated_xsec)

(***************************************************************************)
(* ElementXsecCache.                                                       *)
(***************************************************************************)
MAX_A == 1000
MAX_E == 1500000

\* (ZKey * MAX_A + AKey) * MAX_E + energyKey.  key_t has 64 bits: the value is held
\* by its digits <<z, a, e>> in the mixed radix (MAX_A, MAX_E), a < MAX_A and
\* e < MAX_E, which are equal exactly when the packed integers are.
computeKey(energy, A, Z) ==
  LET energyKey == Trunc(energy)
      AKey == Trunc(A)
      ZKey == Trunc(Z)
      a == AKey + (energyKey \div MAX_E)
  IN  <<ZKey + (a \div MAX_A), a % MAX_A, energyKey % MAX_E>>

NoCall == [op |-> "none"]

\* the_cache_.find(key) == the_cache_.end(), negated
FoundNever(cache, key) == FALSE

Found(cache, key) == key \in DOMAIN cache

\* model_.get() == nullptr
UnboundNever(model) == FALSE

Unbound(model) == model = "null"

\* the_cache_[key] = xsec
Store(cache, key, xsec) ==
  [k \in DOMAIN cache \cup {key} |-> IF k = key THEN xsec ELSE cache[k]]

\* computed[key], with xsec added
Record(log, key, xsec) ==
  [k \in DOMAIN log \cup {key} |->
     IF k = key THEN (IF k \in DOMAIN log THEN Append(log[k], xsec) ELSE <<xsec>>)
     ELSE log[k]]

\* ElementXsecCache::get(energy, A, Z); integrated_xsec is what the integration gives
\* should the estimator be called.
Get(energy, A, Z, integrated_xsec) ==
  LET key == computeKey(energy, A, Z)
      found == Found(the_cache_, key)
      xsec == ComputeCrossSectionPerAtom(energy, A, Z, threshold_, muons_, integrated_xsec)
      args == [op |-> "get", energy |-> energy, A |-> A, Z |-> Z, key |-> key,
               hit |-> found]
  IN  /\ nCalls < MaxCalls
      /\ nCalls' = nCalls + 1
      /\ IF ~found /\ Unbound(model_)
         THEN \* throw std::runtime_error
              /\ call' = [threw |-> TRUE, ret |-> 0] @@ args
              /\ UNCHANGED <<the_cache_, computed>>
         ELSE /\ the_cache_' = IF found THEN the_cache_ ELSE Store(the_cache_, key, xsec)
              /\ computed' = IF found THEN computed ELSE Record(computed, key, xsec)
              /\ call' = [threw |-> FALSE, ret |-> the_cache_'[key]] @@ args
      /\ UNCHANGED <<theAPrime, muons_, threshold, threshold_, model_>>

\* a direct call of the estimator, as GetMeanFreePath makes without the cache
Compute(lepton_ke, A, Z, integrated_xsec) ==
  /\ nCalls < MaxCalls
  /\ nCalls' = nCalls + 1
  /\ call' = [op |-> "compute", energy |-> lepton_ke, A |-> A, Z |-> Z,
              integral |-> integrated_xsec, threw |-> FALSE,
              ret |-> ComputeCrossSectionPerAtom(lepton_ke, A, Z, threshold_, muons_,
                                                 integrated_xsec)]
  /\ UNCHANGED <<theAPrime, muons_, threshold, threshold_, model_, the_cache_, computed>>

\* ElementXsecCache::stream: one row per entry of the_cache_, with
\*   key_t E = key % MAX_E;
\*   key_t A = ((key - E) / MAX_E) % MAX_A;
\*   key_t Z = ((key - E) / MAX_E - A) / MAX_A;
\* which are the digits of the key, and xsec / CLHEP::picobarn [1e5 pb]
Row(key, xsec) == [A |-> key[2], Z |-> key[1], E |-> key[3], xsec |-> xsec]

stream(cache) == {Row(key, cache[key]) : key \in DOMAIN cache}

EmptyMap == [k \in {} |-> 0]

NoSample == [E |-> 0, px |-> 0, py |-> 0, pz |-> 0, e |-> 0]

\* the model before its constructor has run
LibNew ==
  /\ madGraphData_ = EmptyMap
  /\ currentDataPoints_ = EmptyMap
  /\ maxIterations_ = 10000
  /\ method_ = "Undefined"
  /\ pc = "new"
  /\ incident_energy = 0
  /\ lepton_mass = 0
  /\ i = 0
  /\ data = NoSample
  /\ samplingE = 0
  /\ diag = FALSE
  /\ hist = EmptyMap
  /\ err = "none"

\* no lepton is being stepped
NoTrack == [E |-> 0, dir |-> <<0, 0, 0>>]

\* G4ParticleChange before the first aParticleChange.Initialize(track)
NoChange == [secondaries |-> <<>>, status |-> "none"]

\* before the dark brem process is constructed
ProcNew ==
  /\ only_one_per_event_ = FALSE
  /\ global_bias_ = 1
  /\ cache_xsec_ = FALSE
  /\ processList = <<>>
  /\ track = NoTrack
  /\ aParticleChange = NoChange
  /\ nBrems = 0

\* before any worker thread runs
WorkersNew ==
  /\ workers = EmptyMap
  /\ staticMA = EmptyMap
  /\ accessed = EmptyMap

\* A' initialized, a model constructed without loading a library (as g4db-xsec-calc
\* does), and a cache either default-constructed or constructed with the model.
Init ==
  /\ theAPrime \in APrimeMasses
  /\ muons_ \in BOOLEAN
  /\ threshold \in Thresholds
  /\ threshold_ = ConstructThreshold(threshold, theAPrime)
  /\ model_ \in {"null", "model"}
  /\ the_cache_ = EmptyMap
  /\ computed = EmptyMap
  /\ call = NoCall
  /\ nCalls = 0
  /\ LibNew
  /\ ProcNew
  /\ WorkersNew

Next ==
  \/ \E energy \in KineticEnergies, el \in Elements, x \in Integrals :
       Get(energy, el[1], el[2], x) /\ UNCHANGED <<libVars, procVars, workerVars>>
  \/ \E energy \in KineticEnergies, el \in Elements, x \in Integrals :
       Compute(energy, el[1], el[2], x) /\ UNCHANGED <<libVars, procVars, workerVars>>

Spec == Init /\ [][Next]_vars

(***************************************************************************)
(* The cache over the whole range of its inputs: energies up to MAX_E MeV  *)
(* and isotopes one unit of A apart.                                       *)
(***************************************************************************)
\* kinetic energies [keV]: 0, 2 GeV, 2.0005 GeV and MAX_E MeV = 1.5 TeV
KeyEnergies == {0, 2000000, 2000500, MAX_E * MeV}
\* <<A, Z>> of carbon-12, carbon-13 and tungsten, in thousandths
KeyElements == {<<12000, 6000>>, <<13003, 6000>>, <<183840, 74000>>}

KeyNext ==
  \E energy \in KeyEnergies, el \in KeyElements :
    Get(energy, el[1], el[2], MaxIntegral) /\ UNCHANGED <<libVars, procVars, workerVars>>

KeySpec == Init /\ [][KeyNext]_vars

(***************************************************************************)
(* The event library of G4DarkBreMModel: load, sample and scale.           *)
(***************************************************************************)
MaxSamples == 2
MaxIncident == 6

\* incident energies of the library [GeV], above lepton mass plus A' mass
EnergyKeys == {3, 5}
\* four-momentum of a recorded recoil lepton [GeV]: one along the beam, one with
\* transverse momentum 2 and mass 1
SampleKinds == {[px |-> 0, py |-> 0, pz |-> 3, e |-> 3],
                [px |-> 0, py |-> 2, pz |-> 2, e |-> 3]}
\* what scale() is asked for [GeV]
IncidentEnergies == 1..MaxIncident
LeptonMasses == {1}
MethodNames == {"forward_only", "cm_scaling", "undefined", "forwardonly"}

\* the event lists a parser can give for incident energy E: evnt.E = ebeam and
\* lib[ebeam].push_back(evnt), so every list holds at least one event
EventLists(E) ==
  UNION {[1..n -> {[E |-> E, px |-> k.px, py |-> k.py, pz |-> k.pz, e |-> k.e] :
                     k \in SampleKinds}] : n \in 1..MaxSamples}

\* what parseLibrary can leave in madGraphData_, the empty map included
Libraries ==
  UNION {{lib \in [K -> UNION {EventLists(E) : E \in K}] :
            \A E \in K : lib[E] \in EventLists(E)} : K \in SUBSET EnergyKeys}

Min(S) == CHOOSE x \in S : \A y \in S : x <= y

MaxKey(S) == CHOOSE x \in S : \A y \in S : x >= y

\* G4APrime::APrime()->GetPDGMass() / CLHEP::GeV
MA == theAPrime \div GeV

\* if (method_name_ == "forward_only") ... else throw
MethodOf(method_name) ==
  CASE method_name = "forward_only" -> "ForwardOnly"
    [] method_name = "cm_scaling" -> "CMScaling"
    [] method_name = "undefined" -> "Undefined"
    [] OTHER -> "invalid"

\* maxIterations_ = 10000; if (iter.second.size() < maxIterations_) maxIterations_ = size
MaxIterationsDefault == 10000

SmallestList(lib) ==
  IF \E k \in DOMAIN lib : Len(lib[k]) < MaxIterationsDefault
  THEN Min({Len(lib[k]) : k \in DOMAIN lib})
  ELSE MaxIterationsDefault

\* int(G4UniformRand() * iter.second.size()), G4UniformRand() in ]0,1[
PlaceholdersFirstKey(lib) ==
  {cdp \in [{Min(DOMAIN lib)} -> 0..(MaxSamples - 1)] :
     \A k \in DOMAIN cdp : cdp[k] < Len(lib[k])}

Placeholders(lib) == {cdp \in [DOMAIN lib -> 0..(MaxSamples - 1)] :
                        \A k \in DOMAIN lib : cdp[k] < Len(lib[k])}

\* G4DarkBreMModel::G4DarkBreMModel with SetMadGraphDataLibrary and MakePlaceholders
Construct(method_name, load_library, lib) ==
  /\ pc = "new"
  /\ IF MethodOf(method_name) = "invalid"
     THEN /\ pc' = "failed"
          /\ err' = "runtime_error"
          /\ UNCHANGED <<madGraphData_, currentDataPoints_, maxIterations_, method_, hist>>
     ELSE /\ method_' = MethodOf(method_name)
          /\ IF ~load_library
             THEN /\ pc' = "idle"
                  /\ UNCHANGED <<madGraphData_, currentDataPoints_, maxIterations_, hist, err>>
             ELSE /\ madGraphData_' = lib
                  /\ IF DOMAIN lib = {}
                     THEN /\ pc' = "failed"
                          /\ err' = "runtime_error"
                          /\ UNCHANGED <<currentDataPoints_, maxIterations_, hist>>
                     ELSE /\ currentDataPoints_' \in Placeholders(lib)
                          /\ maxIterations_' = SmallestList(lib)
                          /\ hist' = [k \in DOMAIN lib |-> <<>>]
                          /\ pc' = "idle"
                          /\ UNCHANGED err
  /\ UNCHANGED <<incident_energy, lepton_mass, i, data, samplingE, diag>>

\* for (const auto &keyVal : currentDataPoints_) {
\*   samplingE = keyVal.first; if (incident_energy < samplingE) break; }
\* over the keys not yet visited, in ascending order
RECURSIVE ScanKeysInclusive(_, _, _)
ScanKeysInclusive(keys, sE, E0) ==
  IF keys = {} THEN sE
  ELSE LET k == Min(keys)
       IN  IF E0 <= k THEN k ELSE ScanKeysInclusive(keys \ {k}, k, E0)

ScanKeysFirst(keys, sE, E0) ==
  IF keys = {} THEN sE
  ELSE Min(keys)

RECURSIVE ScanKeysToEnd(_, _, _)
ScanKeysToEnd(keys, sE, E0) ==
  IF keys = {} THEN sE
  ELSE LET k == Min(keys)
       IN  ScanKeysToEnd(keys \ {k}, k, E0)

RECURSIVE ScanKeys(_, _, _)
ScanKeys(keys, sE, E0) ==
  IF keys = {} THEN sE
  ELSE LET k == Min(keys)
       IN  IF E0 < k THEN k ELSE ScanKeys(keys \ {k}, k, E0)

\* if (currentDataPoints_.at(samplingE) >= madGraphData_.at(samplingE).size())
\*   currentDataPoints_[samplingE] = 0;
NoWrap(cursor, size) == cursor

Wrap(cursor, size) == IF cursor >= size THEN 0 ELSE cursor

\* currentDataPoints_[samplingE]++
Stay(cursor) == cursor

Advance(cursor) == cursor + 1

\* the indices last read from a key: idx added, the window kept to the key's size
Window(h, idx, size) ==
  LET a == Append(h, idx)
  IN  IF Len(a) > size THEN Tail(a) ELSE a

\* G4DarkBreMModel::sample(E0): the key selected, the index read, the cursors after
\* the call, and the sample returned unless map::at or vector::at threw
sampleOfAllKeys(lib, cursors, E0) ==
  LET sE == ScanKeys(DOMAIN cursors, 0, E0)
  IN  IF sE \notin DOMAIN cursors
      THEN [threw |-> TRUE, key |-> sE, idx |-> 0, cdp |-> cursors,
            out |-> NoSample]
      ELSE LET size == Len(lib[sE])
               idx == Wrap(cursors[sE], size)
               cdp == [k \in DOMAIN cursors |-> Advance(Wrap(cursors[k], Len(lib[k])))]
           IN  [threw |-> idx >= size, key |-> sE, idx |-> idx, cdp |-> cdp,
                out |-> IF idx >= size THEN NoSample ELSE lib[sE][idx + 1]]

sampleOf(lib, cursors, E0) ==
  LET sE == ScanKeys(DOMAIN cursors, 0, E0)
  IN  IF sE \notin DOMAIN cursors
      THEN [threw |-> TRUE, key |-> sE, idx |-> 0, cdp |-> cursors,
            out |-> NoSample]
      ELSE LET size == Len(lib[sE])
               idx == Wrap(cursors[sE], size)
               cdp == [cursors EXCEPT ![sE] = Advance(idx)]
           IN  [threw |-> idx >= size, key |-> sE, idx |-> idx, cdp |-> cdp,
                out |-> IF idx >= size THEN NoSample ELSE lib[sE][idx + 1]]

\* sample() of the model of the variables madGraphData_ and currentDataPoints_
sample(E0) == sampleOf(madGraphData_, currentDataPoints_, E0)

\* the effect of one sample() call on the cursors and on what was read
DrawDropped(r) ==
  /\ currentDataPoints_' = r.cdp
  /\ samplingE' = r.key
  /\ data' = data
  /\ hist' = IF r.key \in DOMAIN hist
             THEN [hist EXCEPT ![r.key] = Window(@, r.idx, Len(madGraphData_[r.key]))]
             ELSE hist

Draw(r) ==
  /\ currentDataPoints_' = r.cdp
  /\ samplingE' = r.key
  /\ data' = r.out
  /\ hist' = IF r.key \in DOMAIN hist
             THEN [hist EXCEPT ![r.key] = Window(@, r.idx, Len(madGraphData_[r.key]))]
             ELSE hist

\* EAcc = (data.lepton.e() - lepton_mass) *
\*        ((incident_energy - lepton_mass - MA) / (data.E - lepton_mass - MA)) + lepton_mass
\* as the fraction EAccNum / EAccDen
EAccDen(d, m) == d.E - m - MA
EAccNumNoMA(d, E0, m) == (d.e - m) * (E0 - m) + m * EAccDen(d, m)

EAccNum(d, E0, m) == (d.e - m) * (E0 - m - MA) + m * EAccDen(d, m)

\* the largest r in lo..hi with r * r <= n
RECURSIVE SqrtIn(_, _, _)
SqrtIn(n, lo, hi) ==
  IF lo >= hi THEN lo
  ELSE LET mid == (lo + hi + 1) \div 2
       IN  IF mid * mid <= n THEN SqrtIn(n, mid, hi) ELSE SqrtIn(n, lo, mid - 1)

\* std::sqrt on a non-negative integer, rounded down
Sqrt(n) == SqrtIn(n, 0, 46340)

\* data.lepton.perp()
perp(d) == Sqrt(d.px * d.px + d.py * d.py)

\* while (Pt * Pt + lepton_mass * lepton_mass > EAcc * EAcc); a division by zero
\* makes EAcc infinite or NaN, and the comparison false
UnrealisticNever(d, E0, m) == FALSE

Unrealistic(d, E0, m) ==
  LET den == EAccDen(d, m)
      num == EAccNum(d, E0, m)
  IN  IF den = 0 THEN FALSE
      ELSE (perp(d) * perp(d) + m * m) * den * den > num * num

\* i++
SameI(n) == n

NextI(n) == n + 1

\* if (i > maxIterations_) { std::cerr << ...; break; }
GiveUp(n) == n > maxIterations_

\* PhiAcc = G4UniformRand() * 2 * pi over ]0, 2 pi[, in quarter turns
PhiAccs == {1, 2, 3}

\* CMScaling only: sin^2 of the polar angle of el after el.boost(-cm) and
\* el.boost(newcm), as n / d. The boosts are not computed: Pt = el.perp() and
\* P = el.vect().mag() are those of any direction the boosted lepton can have.
BoostedSin2 == {[n |-> 0, d |-> 1], [n |-> 1, d |-> 2], [n |-> 1, d |-> 1]}

\* EAcc after the branch of the method, as the fraction ENum / EDen: the scaled energy
\* for ForwardOnly and CMScaling (newE), else if (Undefined) EAcc = data.lepton.e()
ENumScaled(d, E0, m) == EAccNum(d, E0, m)

ENumNoSetE(d, E0, m) == IF method_ = "ForwardOnly" THEN EAccNum(d, E0, m) ELSE d.e

ENum(d, E0, m) == IF method_ = "Undefined" THEN d.e ELSE EAccNum(d, E0, m)

EDen(d, E0, m) == IF method_ = "Undefined" THEN 1 ELSE EAccDen(d, m)

\* what asin, sqrt or a division by zero make of a vector
NaN == [nan |-> TRUE, den2 |-> 1, mag2 |-> 0, pt2 |-> 0, phi |-> 0, cos |-> 0]

\* the sign of std::cos(ThetaAcc) for ThetaAcc = std::asin(Pt / P), which lies in
\* [0, pi/2] as Pt / P is not negative; sin2 is Pt^2 / P^2 <= 1
CosSignBackward(sin2) == 0 - 1

CosSign(sin2) == IF sin2.n = sin2.d THEN 0 ELSE 1

\* the vector scale() returns, in GeV (the code multiplies by CLHEP::GeV): its
\* squared magnitude mag2 / den2, its squared transverse part pt2 / den2, its azimuth
\* phi and the sign cos of its longitudinal part cos(asin(Pt / P)) * recoilMag.
\*   recoilMag = sqrt(EAcc * EAcc - lepton_mass * lepton_mass) * GeV
\*   ThetaAcc = std::asin(Pt / P)
\*   recoil.set(sin(ThetaAcc) * cos(PhiAcc), sin(ThetaAcc) * sin(PhiAcc), cos(ThetaAcc))
\*   recoil.setMag(recoilMag)
recoil(PhiAcc, boosted) ==
  LET m == lepton_mass
      num == ENum(data, incident_energy, m)
      den == EDen(data, incident_energy, m)
      \* (EAcc^2 - m^2) * den^2
      mag2 == num * num - m * m * den * den
      \* Pt^2 / P^2
      sin2 == IF method_ = "CMScaling" THEN boosted
              ELSE [n |-> perp(data) * perp(data) * den * den, d |-> mag2]
  IN  IF den = 0 \/ mag2 < 0 \/ sin2.d <= 0 \/ sin2.n > sin2.d
      THEN NaN
      ELSE [nan |-> FALSE, den2 |-> den * den * sin2.d, mag2 |-> mag2 * sin2.d,
            pt2 |-> mag2 * sin2.n, phi |-> PhiAcc, cos |-> CosSign(sin2)]

\* scale(incident_energy, lepton_mass), to the test of the while loop
ScaleBegin(E0, m) ==
  LET r == sample(E0)
  IN  /\ pc = "idle"
      /\ incident_energy' = E0
      /\ lepton_mass' = m
      /\ i' = 0
      /\ diag' = FALSE
      /\ Draw(r)
      /\ IF r.threw
         THEN pc' = "idle" /\ err' = "out_of_range"
         ELSE /\ err' = "none"
              /\ pc' = IF method_ = "ForwardOnly" /\ Unrealistic(r.out, E0, m)
                       THEN "retry" ELSE "finish"
      /\ UNCHANGED <<madGraphData_, maxIterations_, method_>>

\* one turn of the while loop of the forward-only method
ScaleRetry ==
  LET r == sample(incident_energy)
  IN  /\ pc = "retry"
      /\ i' = NextI(i)
      /\ Draw(r)
      /\ IF r.threw
         THEN pc' = "idle" /\ err' = "out_of_range" /\ UNCHANGED diag
         ELSE /\ UNCHANGED err
              /\ diag' = GiveUp(i')
              /\ pc' = IF ~GiveUp(i') /\ Unrealistic(r.out, incident_energy, lepton_mass)
                       THEN "retry" ELSE "finish"
      /\ UNCHANGED <<madGraphData_, maxIterations_, method_, incident_energy, lepton_mass>>

\* the recoil momentum is built and returned
ScaleReturn ==
  /\ pc = "finish"
  /\ pc' = "idle"
  /\ incident_energy' = 0
  /\ lepton_mass' = 0
  /\ i' = 0
  /\ data' = NoSample
  /\ samplingE' = 0
  /\ diag' = FALSE
  /\ UNCHANGED <<madGraphData_, currentDataPoints_, maxIterations_, method_, hist, err>>

\* A' initialized with a mass of 1 GeV; the model is yet to be constructed
LibInit ==
  /\ theAPrime = GeV
  /\ muons_ = FALSE
  /\ threshold = 0
  /\ threshold_ = ConstructThreshold(threshold, theAPrime)
  /\ model_ = "null"
  /\ the_cache_ = EmptyMap
  /\ computed = EmptyMap
  /\ call = NoCall
  /\ nCalls = 0
  /\ LibNew
  /\ ProcNew
  /\ WorkersNew

LibNext ==
  \/ \E name \in MethodNames, load \in BOOLEAN, lib \in Libraries :
       Construct(name, load, lib) /\ UNCHANGED <<xsecVars, procVars, workerVars>>
  \/ \E E0 \in IncidentEnergies, m \in LeptonMasses :
       ScaleBegin(E0, m) /\ UNCHANGED <<xsecVars, procVars, workerVars>>
  \/ ScaleRetry /\ UNCHANGED <<xsecVars, procVars, workerVars>>
  \/ ScaleReturn /\ UNCHANGED <<xsecVars, procVars, workerVars>>

LibSpec == LibInit /\ [][LibNext]_vars

\* a model of the forward-only method with its library loaded
FwdNext ==
  \/ \E lib \in Libraries : Construct("forward_only", TRUE, lib) /\ UNCHANGED <<xsecVars, procVars, workerVars>>
  \/ \E E0 \in IncidentEnergies, m \in LeptonMasses :
       ScaleBegin(E0, m) /\ UNCHANGED <<xsecVars, procVars, workerVars>>
  \/ ScaleRetry /\ UNCHANGED <<xsecVars, procVars, workerVars>>
  \/ ScaleReturn /\ UNCHANGED <<xsecVars, procVars, workerVars>>

\* the loop of scale() and its return are sequential code: once entered they go on
LibFairSpec ==
  /\ LibInit /\ [][FwdNext]_vars
  /\ WF_vars(ScaleRetry /\ UNCHANGED <<xsecVars, procVars, workerVars>>)
  /\ WF_vars(ScaleReturn /\ UNCHANGED <<xsecVars, procVars, workerVars>>)

(***************************************************************************)
(* The A' particle definition: G4APrime::theAPrime and its accessors.      *)
(***************************************************************************)
\* G4APrime* G4APrime::theAPrime = 0: no instance
NoAPrime == 0 - 1

\* theMass of the calls of APrime [keV]: a negative one is an access, which gives
\* no mass; the others configure the A'
MassArguments == {0 - MeV, 0, 10250, GeV}

\* G4APrime::APrime(theMass): whether it threw, and theAPrime after the call, which
\* is what it returns
APrimeUnchecked(theMass) ==
  IF theAPrime = NoAPrime
  THEN [threw |-> FALSE, the |-> theMass]
  ELSE [threw |-> FALSE, the |-> theAPrime]

APrime(theMass) ==
  IF theAPrime = NoAPrime
  THEN IF theMass < 0
       THEN [threw |-> TRUE, the |-> theAPrime]
       ELSE [threw |-> FALSE, the |-> theMass]
  ELSE [threw |-> FALSE, the |-> theAPrime]

\* a call of G4APrime::APrime(theMass)
Access(theMass) ==
  LET r == APrime(theMass)
  IN  /\ nCalls < MaxCalls
      /\ nCalls' = nCalls + 1
      /\ theAPrime' = r.the
      /\ call' = [op |-> "APrime", mass |-> theMass, threw |-> r.threw, ret |-> r.the]
      /\ UNCHANGED <<muons_, threshold, threshold_, model_, the_cache_, computed>>
      /\ UNCHANGED <<libVars, procVars, workerVars>>

\* G4APrime::Initialize(mass, id): throws if the A' has already been initialized,
\* else constructs it with the mass
InitializeAgain(mass) == [threw |-> FALSE, the |-> mass]

Initialize(mass) ==
  IF theAPrime # NoAPrime
  THEN [threw |-> TRUE, the |-> theAPrime]
  ELSE [threw |-> FALSE, the |-> mass]

\* a call of G4APrime::Initialize(mass)
CallInitialize(mass) ==
  LET r == Initialize(mass)
  IN  /\ nCalls < MaxCalls
      /\ nCalls' = nCalls + 1
      /\ theAPrime' = r.the
      /\ call' = [op |-> "Initialize", mass |-> mass, threw |-> r.threw, ret |-> r.the]
      /\ UNCHANGED <<muons_, threshold, threshold_, model_, the_cache_, computed>>
      /\ UNCHANGED <<libVars, procVars, workerVars>>

\* G4DarkBreMModel::G4DarkBreMModel from its first initializers on:
\* threshold_{std::max(threshold, 2.*G4APrime::APrime()->GetPDGMass()/CLHEP::GeV)}
\* needs the A', then the method name is read and the library loaded
NewModel(t, method_name, load_library, lib) ==
  LET r == APrime(0 - MeV)
  IN  /\ pc = "new"
      /\ IF r.threw
         THEN /\ pc' = "failed"
              /\ err' = "runtime_error"
              /\ UNCHANGED <<threshold, threshold_>>
              /\ UNCHANGED <<madGraphData_, currentDataPoints_, maxIterations_, method_,
                             incident_energy, lepton_mass, i, data, samplingE, diag, hist>>
         ELSE /\ threshold' = t
              /\ threshold_' = ConstructThreshold(t, r.the)
              /\ Construct(method_name, load_library, lib)
      /\ UNCHANGED <<theAPrime, muons_, model_, the_cache_, computed, call, nCalls>>
      /\ UNCHANGED <<procVars, workerVars>>

\* the process starts without an A' and without a model
APrimeInit ==
  /\ theAPrime = NoAPrime
  /\ muons_ = FALSE
  /\ threshold = 0
  /\ threshold_ = 0
  /\ model_ = "null"
  /\ the_cache_ = EmptyMap
  /\ computed = EmptyMap
  /\ call = NoCall
  /\ nCalls = 0
  /\ LibNew
  /\ ProcNew
  /\ WorkersNew

APrimeNext ==
  \/ \E theMass \in MassArguments : Access(theMass)
  \/ \E mass \in MassArguments \ {0 - MeV} : CallInitialize(mass)
  \/ \E t \in Thresholds, name \in MethodNames :
       NewModel(t, name, FALSE, EmptyMap)

APrimeSpec == APrimeInit /\ [][APrimeNext]_vars

(***************************************************************************)
(* The dark brem process: G4DarkBremsstrahlung::PostStepDoIt and           *)
(* G4DarkBreMModel::GenerateChange.  Three-vectors are in keV, whole MeV.  *)
(***************************************************************************)
MaxBrems == 2

\* GetProcessName().contains(PROCESS_NAME), PROCESS_NAME = "DarkBrem"
containsAny(name) == TRUE

contains(name) == name \in {"DarkBrem", "biasWrapper(DarkBrem)"}

\* the processes of the lepton's process manager in the order of GetProcessList(),
\* the dark brem process bare or wrapped for biasing
ProcessLists == {<<"msc", "DarkBrem">>, <<"biasWrapper(DarkBrem)", "eBrem">>}

\* the leptons stepped: particle, total energy at the post-step point [GeV] and
\* momentum direction
TrackDirections == {<<0, 0, 1>>, <<1, 0, 0>>}
Tracks == {[def |-> d, E |-> E, dir |-> u] :
             d \in {"e-", "mu-"}, E \in {3, 4}, u \in TrackDirections}

\* G4DarkBremsstrahlung::IsApplicable
IsApplicable(def) ==
  IF muons_ THEN def \in {"mu-", "mu+"} ELSE def = "e-"

\* the dark brem process is in the list and Geant4 may invoke it
DarkBremActive ==
  \E j \in 1..Len(processList) : contains(processList[j].name) /\ processList[j].active

\* for (i_proc ...) if (p->GetProcessName().contains(PROCESS_NAME)) {
\*   pman->SetProcessActivation(p, false); break; }
SetFirstActivation(list, value) ==
  LET matches == {j \in 1..Len(list) : contains(list[j].name)}
  IN  IF matches = {} THEN list
      ELSE [list EXCEPT ![Min(matches)].active = value]

\* sqrt(n2 / d2) GeV in whole MeV
MeVOf(n2, d2) == Sqrt(((n2 * 1000) \div d2) * 1000)

NaNVector == [nan |-> TRUE, x |-> 0, y |-> 0, z |-> 0]

\* the G4ThreeVector scale() returns: recoil.set(sin(ThetaAcc) * cos(PhiAcc),
\* sin(ThetaAcc) * sin(PhiAcc), cos(ThetaAcc)); recoil.setMag(recoilMag)
ThreeVector(r) ==
  IF r.nan THEN NaNVector
  ELSE LET pt == MeVOf(r.pt2, r.den2) * MeV
           pz == r.cos * MeVOf(r.mag2 - r.pt2, r.den2) * MeV
           c == CASE r.phi = 0 -> 1 [] r.phi = 2 -> 0 - 1 [] OTHER -> 0
           sn == CASE r.phi = 1 -> 1 [] r.phi = 3 -> 0 - 1 [] OTHER -> 0
       IN  [nan |-> FALSE, x |-> pt * c, y |-> pt * sn, z |-> pz]

\* CLHEP::Hep3Vector::rotateUz(u) for a unit vector u along an axis: up = u1^2 + u2^2
\* is 0 or 1
NoRotateUz(v, u) == v

rotateUz(v, u) ==
  LET up == u[1] * u[1] + u[2] * u[2]
  IN  IF v.nan THEN v
      ELSE IF up > 0
      THEN [nan |-> FALSE,
            x |-> (u[1] * u[3] * v.x - u[2] * v.y) \div up + u[1] * v.z,
            y |-> (u[2] * u[3] * v.x + u[1] * v.y) \div up + u[2] * v.z,
            z |-> (0 - up) * v.x + u[3] * v.z]
      ELSE IF u[3] < 0 THEN [nan |-> FALSE, x |-> 0 - v.x, y |-> v.y, z |-> 0 - v.z]
      ELSE v

\* track.GetMomentum(): sqrt(E^2 - m^2) along the direction of the track
GetMomentum(t, m) ==
  LET p == MeVOf(t.E * t.E - m * m, 1) * MeV
  IN  [nan |-> FALSE, x |-> p * t.dir[1], y |-> p * t.dir[2], z |-> p * t.dir[3]]

\* operator- of G4ThreeVector
Plus(a, b) ==
  IF a.nan \/ b.nan THEN NaNVector
  ELSE [nan |-> FALSE, x |-> a.x + b.x, y |-> a.y + b.y, z |-> a.z + b.z]

Minus(a, b) ==
  IF a.nan \/ b.nan THEN NaNVector
  ELSE [nan |-> FALSE, x |-> a.x - b.x, y |-> a.y - b.y, z |-> a.z - b.z]

\* G4DarkBreMModel::GenerateChange after scale() has returned recoilMomentum:
\* alwaysCreateNewLepton_ is true, the A' and the recoil lepton are secondaries
GenerateChange(recoilMomentum, t, Ml) ==
  LET rotated == rotateUz(recoilMomentum, t.dir)
      darkPhotonMomentum == Minus(GetMomentum(t, Ml), rotated)
  IN  [secondaries |-> <<[def |-> "A^1", p |-> darkPhotonMomentum],
                         [def |-> t.def, p |-> rotated]>>,
       status |-> "fStopAndKill"]

\* G4DarkBremsstrahlung::G4DarkBremsstrahlung(the_model, only_one_per_event, ...):
\* the process joins the process manager of the lepton
\* element_xsec_cache_ is default-constructed, without a model, and
\* if (cache_xsec_) element_xsec_cache_ = g4db::ElementXsecCache(model_)
BindCacheNever(cache_xsec) == "null"

BindCache(cache_xsec) == IF cache_xsec THEN "model" ELSE "null"

\* G4DarkBremsstrahlung::G4DarkBremsstrahlung(the_model, only_one_per_event,
\* global_bias, cache_xsec), which puts the process into the lepton's process list
NewProcess(only_one_per_event, global_bias, cache_xsec, names) ==
  /\ pc = "idle"
  /\ processList = <<>>
  /\ only_one_per_event_' = only_one_per_event
  /\ global_bias_' = global_bias
  /\ cache_xsec_' = cache_xsec
  /\ processList' = [j \in 1..Len(names) |-> [name |-> names[j], active |-> TRUE]]
  /\ model_' = BindCache(cache_xsec)
  /\ the_cache_' = EmptyMap
  /\ UNCHANGED <<track, aParticleChange, nBrems>>
  /\ UNCHANGED <<theAPrime, muons_, threshold, threshold_, computed, call, nCalls>>
  /\ UNCHANGED <<libVars, workerVars>>

\* PostStepDoIt(track, step) of an active process, to the while loop of scale()
\* in GenerateChange
PostStepDoIt(t) ==
  /\ pc = "idle"
  /\ DarkBremActive
  /\ nBrems < MaxBrems
  /\ IF ~IsApplicable(t.def)
     THEN /\ err' = "runtime_error"
          /\ UNCHANGED <<only_one_per_event_, processList, track, aParticleChange>>
          /\ UNCHANGED <<madGraphData_, currentDataPoints_, maxIterations_, method_, pc,
                         incident_energy, lepton_mass, i, data, samplingE, diag, hist>>
     ELSE /\ track' = t
          /\ processList' = IF only_one_per_event_
                            THEN SetFirstActivation(processList, FALSE)
                            ELSE processList
          /\ aParticleChange' = [secondaries |-> <<>>, status |-> "fAlive"]
          /\ \E Ml \in LeptonMasses : ScaleBegin(t.E, Ml)
          /\ UNCHANGED only_one_per_event_
  /\ UNCHANGED <<nBrems, global_bias_, cache_xsec_>>
  /\ UNCHANGED <<xsecVars, workerVars>>

\* scale() returns into GenerateChange, and PostStepDoIt returns aParticleChange
PostStepReturn(PhiAcc, boosted) ==
  /\ pc = "finish"
  /\ aParticleChange' =
       GenerateChange(ThreeVector(recoil(PhiAcc, boosted)), track, lepton_mass)
  /\ nBrems' = nBrems + 1
  /\ ScaleReturn
  /\ UNCHANGED <<only_one_per_event_, global_bias_, cache_xsec_, processList, track>>
  /\ UNCHANGED <<xsecVars, workerVars>>

\* the host at the end of an event: the same loop with SetProcessActivation(p, true)
EndOfEventAction ==
  /\ pc = "idle"
  /\ processList # <<>>
  /\ processList' = SetFirstActivation(processList, TRUE)
  /\ nBrems' = 0
  /\ UNCHANGED <<only_one_per_event_, global_bias_, cache_xsec_, track, aParticleChange>>
  /\ UNCHANGED <<xsecVars, libVars, workerVars>>

\* the libraries of one incident energy
OneKeyLibraries == {lib \in Libraries : DOMAIN lib = {MaxKey(EnergyKeys)}}

ProcNext ==
  \/ \E name \in MethodNames \ {"forwardonly"}, lib \in OneKeyLibraries :
       Construct(name, TRUE, lib) /\ UNCHANGED <<xsecVars, procVars, workerVars>>
  \/ \E only_one_per_event \in BOOLEAN, cache_xsec \in BOOLEAN, names \in ProcessLists :
       NewProcess(only_one_per_event, 1, cache_xsec, names)
  \/ \E t \in Tracks : PostStepDoIt(t)
  \/ ScaleRetry /\ UNCHANGED <<xsecVars, procVars, workerVars>>
  \/ \E PhiAcc \in PhiAccs, b \in BoostedSin2 : PostStepReturn(PhiAcc, b)
  \/ EndOfEventAction

ProcSpec == LibInit /\ [][ProcNext]_vars

(***************************************************************************)
(* G4DarkBremsstrahlung::GetMeanFreePath.                                  *)
(***************************************************************************)
\* the materials stepped through: per element its A, Z (in thousandths) and its
\* number of atoms per volume; carbon, and carbon with tungsten
Materials ==
  {<<[A |-> 12011, Z |-> 6000, n |-> 1]>>,
   <<[A |-> 12011, Z |-> 6000, n |-> 2], [A |-> 183840, Z |-> 74000, n |-> 1]>>}
\* global_bias values
Biases == {1, 2}
\* kinetic energies of the track [keV], around the threshold of 20.5 MeV and above
\* that of 2 GeV
TrackKineticEnergies == {20499, 20999, 2000000}

\* return SIGMA > DBL_MIN ? 1. / SIGMA : DBL_MAX; as the fraction num / den, or the
\* value DBL_MAX. SIGMA is a whole number here, above DBL_MIN when above zero.
DBL_MAX == [max |-> TRUE, num |-> 0, den |-> 1]

AboveDBL_MINOrZero(SIGMA) == SIGMA >= 0

AboveDBL_MIN(SIGMA) == SIGMA > 0

Inverse(SIGMA) == [max |-> FALSE, num |-> 1, den |-> SIGMA]

\* for (size_t i = 0; i < materialWeAreIn->GetNumberOfElements(); i++): from element
\* j on, with acc the cache, what the estimator returned to it, the values of
\* element_xsec so far, SIGMA, and whether get() has thrown
RECURSIVE ElementLoop(_, _, _, _, _)
ElementLoop(material, energy, integrated_xsec, j, acc) ==
  IF j > Len(material) \/ acc.threw THEN acc
  ELSE LET el == material[j]
           key == computeKey(energy, el.A, el.Z)
           found == Found(acc.cache, key)
           xsec == ComputeCrossSectionPerAtom(energy, el.A, el.Z, threshold_, muons_,
                                              integrated_xsec)
           stored == IF found THEN acc.cache ELSE Store(acc.cache, key, xsec)
           element_xsec == IF cache_xsec_ THEN stored[key] ELSE xsec
       IN  IF cache_xsec_ /\ ~found /\ Unbound(model_)
           THEN [acc EXCEPT !.threw = TRUE]
           ELSE ElementLoop(material, energy, integrated_xsec, j + 1,
                  [cache |-> IF cache_xsec_ THEN stored ELSE acc.cache,
                   computed |-> IF cache_xsec_ /\ ~found
                                THEN Record(acc.computed, key, xsec) ELSE acc.computed,
                   xsecs |-> Append(acc.xsecs, element_xsec),
                   SIGMA |-> acc.SIGMA + el.n * element_xsec,
                   threw |-> FALSE])

\* GetMeanFreePath(track, ., .) for a track of particle def and kinetic energy
\* energy in material; integrated_xsec is what the integration gives should the
\* estimator be called
GetMeanFreePath(def, energy, material, integrated_xsec) ==
  LET start == [cache |-> the_cache_, computed |-> computed, xsecs |-> <<>>,
                SIGMA |-> 0, threw |-> FALSE]
      end == IF IsApplicable(def)
             THEN ElementLoop(material, energy, integrated_xsec, 1, start)
             ELSE start
      SIGMA == end.SIGMA * global_bias_
      args == [op |-> "GetMeanFreePath", def |-> def, energy |-> energy,
               material |-> material, xsecs |-> end.xsecs, threw |-> end.threw]
  IN  /\ pc = "idle"
      /\ processList # <<>>
      /\ nCalls < MaxCalls
      /\ nCalls' = nCalls + 1
      /\ the_cache_' = end.cache
      /\ computed' = end.computed
      /\ call' = [ret |-> IF IsApplicable(def) /\ ~end.threw /\ AboveDBL_MIN(SIGMA)
                          THEN Inverse(SIGMA) ELSE DBL_MAX] @@ args
      /\ UNCHANGED <<theAPrime, muons_, threshold, threshold_, model_>>
      /\ UNCHANGED <<libVars, procVars, workerVars>>

\* A' initialized, a model constructed without a library, and no process yet
MfpInit ==
  /\ theAPrime \in APrimeMasses
  /\ muons_ \in BOOLEAN
  /\ threshold \in Thresholds
  /\ threshold_ = ConstructThreshold(threshold, theAPrime)
  /\ model_ = "null"
  /\ the_cache_ = EmptyMap
  /\ computed = EmptyMap
  /\ call = NoCall
  /\ nCalls = 0
  /\ madGraphData_ = EmptyMap
  /\ currentDataPoints_ = EmptyMap
  /\ maxIterations_ = MaxIterationsDefault
  /\ method_ = "ForwardOnly"
  /\ pc = "idle"
  /\ incident_energy = 0
  /\ lepton_mass = 0
  /\ i = 0
  /\ data = NoSample
  /\ samplingE = 0
  /\ diag = FALSE
  /\ hist = EmptyMap
  /\ err = "none"
  /\ ProcNew
  /\ WorkersNew

MfpNext ==
  \/ \E global_bias \in Biases, cache_xsec \in BOOLEAN :
       NewProcess(FALSE, global_bias, cache_xsec, <<"DarkBrem">>)
  \/ \E def \in {"e-", "mu-"}, energy \in TrackKineticEnergies, material \in Materials,
        x \in Integrals :
       GetMeanFreePath(def, energy, material, x)

MfpSpec == MfpInit /\ [][MfpNext]_vars

(***************************************************************************)
(* Two worker threads.  ConstructProcess runs on every worker and gives it *)
(* a process with a cache and a model of its own; theAPrime and the        *)
(* function-local statics MA belong to the whole program.                  *)
(***************************************************************************)
Workers == {1, 2}

\* the_process_ = std::unique_ptr<G4DarkBremsstrahlung>(new G4DarkBremsstrahlung(
\*   std::shared_ptr<g4db::G4DarkBreMModel>(new g4db::G4DarkBreMModel(...)), ...))
ProcessOfShared(w) == 1

ProcessOf(w) == w

\* the library every worker loads from the same path: one incident energy, a
\* sample of each kind
WorkerLibrary ==
  CHOOSE lib \in OneKeyLibraries :
    \A k \in DOMAIN lib : Len(lib[k]) = 2 /\ perp(lib[k][1]) = 0 /\ perp(lib[k][2]) > 0

\* what the workers ask for: kinetic energies of one cache bin each [keV], total
\* energies [GeV]
WorkerKineticEnergies == {20999, 2000000}
WorkerIncidentEnergies == {3, 4}

\* static const double MA before the first call of its function
NoMA == 0 - 1

\* the places that hold state: of the program (owner 0) or of a worker's process
Locations ==
  {<<"theAPrime", 0>>, <<"MA of ComputeCrossSectionPerAtom", 0>>, <<"MA of scale", 0>>}
    \cup {<<n, p>> : n \in {"the_cache_", "madGraphData_", "currentDataPoints_",
                            "aParticleChange"},
                     p \in Workers}

Reads(acc, loc, w) == [acc EXCEPT ![loc].r = @ \cup {w}]

Writes(acc, loc, w) == [acc EXCEPT ![loc].w = @ \cup {w}]

\* static const double MA = G4APrime::APrime()->GetPDGMass() / CLHEP::GeV;
\* the first call of the function initializes MA from the A', every call reads it
StaticMA(fn) ==
  IF staticMA[fn] = NoMA THEN [staticMA EXCEPT ![fn] = MA] ELSE staticMA

StaticMAAccess(acc, fn, w) ==
  IF staticMA[fn] = NoMA
  THEN Reads(Writes(Reads(acc, <<"theAPrime", 0>>, w), <<fn, 0>>, w), <<fn, 0>>, w)
  ELSE Reads(acc, <<fn, 0>>, w)

\* GetMeanFreePath of worker w: element_xsec_cache_.get(energy, A, Z), which calls
\* the estimator of the worker's model for a key it has not got
WorkerGet(w, energy, A, Z, integrated_xsec) ==
  LET p == ProcessOf(w)
      fn == "MA of ComputeCrossSectionPerAtom"
      key == computeKey(energy, A, Z)
      found == Found(workers[p].the_cache_, key)
      xsec == ComputeCrossSectionPerAtom(energy, A, Z, threshold_, muons_, integrated_xsec)
      looked == Reads(accessed, <<"the_cache_", p>>, w)
  IN  /\ workers[p].pc = "idle"
      /\ workers' = IF found THEN workers
                    ELSE [workers EXCEPT ![p].the_cache_ = Store(@, key, xsec)]
      /\ staticMA' = IF found THEN staticMA ELSE StaticMA(fn)
      /\ accessed' = IF found THEN looked
                     ELSE Writes(StaticMAAccess(looked, fn, w), <<"the_cache_", p>>, w)
      /\ UNCHANGED <<xsecVars, libVars, procVars>>

\* what one sample() call of worker w's model touches
SampleAccess(acc, p, w) ==
  Writes(Reads(Reads(acc, <<"madGraphData_", p>>, w), <<"currentDataPoints_", p>>, w),
         <<"currentDataPoints_", p>>, w)

\* GenerateChange of worker w: scale(incident_energy, lepton_mass) of the worker's
\* forward-only model, to the test of its while loop
WorkerScaleBegin(w, E0, m) ==
  LET p == ProcessOf(w)
      fn == "MA of scale"
      r == sampleOf(WorkerLibrary, workers[p].currentDataPoints_, E0)
  IN  /\ workers[p].pc = "idle"
      /\ workers' = [workers EXCEPT ![p].currentDataPoints_ = r.cdp,
                                    ![p].incident_energy = E0,
                                    ![p].i = 0,
                                    ![p].data = r.out,
                                    ![p].pc = IF Unrealistic(r.out, E0, m)
                                              THEN "retry" ELSE "finish"]
      /\ staticMA' = StaticMA(fn)
      /\ accessed' = SampleAccess(StaticMAAccess(accessed, fn, w), p, w)
      /\ UNCHANGED <<xsecVars, libVars, procVars>>

\* one turn of the while loop of worker w's scale()
WorkerScaleRetry(w, m) ==
  LET p == ProcessOf(w)
      E0 == workers[p].incident_energy
      r == sampleOf(WorkerLibrary, workers[p].currentDataPoints_, E0)
      n == NextI(workers[p].i)
  IN  /\ workers[p].pc = "retry"
      /\ workers' = [workers EXCEPT ![p].currentDataPoints_ = r.cdp,
                                    ![p].i = n,
                                    ![p].data = r.out,
                                    ![p].pc = IF n <= SmallestList(WorkerLibrary)
                                                 /\ Unrealistic(r.out, E0, m)
                                              THEN "retry" ELSE "finish"]
      /\ accessed' = SampleAccess(Reads(accessed, <<"MA of scale", 0>>, w), p, w)
      /\ UNCHANGED staticMA
      /\ UNCHANGED <<xsecVars, libVars, procVars>>

\* worker w's scale() returns and GenerateChange fills the particle change of the
\* worker's process, with G4APrime::APrime() for the particle of the A'
WorkerGenerateReturn(w) ==
  LET p == ProcessOf(w)
  IN  /\ workers[p].pc = "finish"
      /\ workers' = [workers EXCEPT ![p].incident_energy = 0,
                                    ![p].i = 0,
                                    ![p].data = NoSample,
                                    ![p].pc = "idle"]
      /\ accessed' = Writes(Reads(accessed, <<"theAPrime", 0>>, w),
                            <<"aParticleChange", p>>, w)
      /\ UNCHANGED staticMA
      /\ UNCHANGED <<xsecVars, libVars, procVars>>

\* the A' is initialized and each worker has constructed its process and its model;
\* no function holding a static MA has been called
WorkerInit ==
  /\ theAPrime = GeV
  /\ muons_ = FALSE
  /\ threshold = 0
  /\ threshold_ = ConstructThreshold(threshold, theAPrime)
  /\ model_ = "model"
  /\ the_cache_ = EmptyMap
  /\ computed = EmptyMap
  /\ call = NoCall
  /\ nCalls = 0
  /\ LibNew
  /\ ProcNew
  /\ workers \in [Workers -> {[the_cache_ |-> EmptyMap, currentDataPoints_ |-> cdp,
                               pc |-> "idle", incident_energy |-> 0, i |-> 0,
                               data |-> NoSample] : cdp \in Placeholders(WorkerLibrary)}]
  /\ staticMA = [fn \in {"MA of ComputeCrossSectionPerAtom", "MA of scale"} |-> NoMA]
  /\ accessed = [loc \in Locations |-> [r |-> {}, w |-> {}]]

WorkerNext ==
  \E w \in Workers :
    \/ \E energy \in WorkerKineticEnergies, x \in {MaxIntegral} :
         LET el == CHOOSE e \in Elements : \A f \in Elements : e[1] <= f[1]
         IN  WorkerGet(w, energy, el[1], el[2], x)
    \/ \E E0 \in WorkerIncidentEnergies : WorkerScaleBegin(w, E0, Min(LeptonMasses))
    \/ WorkerScaleRetry(w, Min(LeptonMasses))
    \/ WorkerGenerateReturn(w)

WorkerSpec == WorkerInit /\ [][WorkerNext]_vars

(***************************************************************************)
(* C1: on a cache, the estimator is invoked at most once per cache key,    *)
(* the entry keeps the value that first invocation stored (it is never     *)
(* recomputed, changed or evicted), and every get that maps to the key     *)
(* returns that value.                                                     *)
(***************************************************************************)
C1_EstimatorOncePerKey ==
  /\ DOMAIN computed = DOMAIN the_cache_
  /\ \A k \in DOMAIN computed : Len(computed[k]) = 1 /\ the_cache_[k] = computed[k][1]
  /\ (call.op = "get" /\ ~call.threw) => call.ret = computed[call.key][1]

\* a get that found its key, filled by an earlier get, and returned its value
C1_Witness ==
  /\ call.op = "get" /\ call.hit /\ ~call.threw
  /\ call.ret > 0
  /\ nCalls >= 3

(***************************************************************************)
(* C2: get on an unbound cache (no model) fails with a runtime error for   *)
(* every (energy, A, Z), and the cache stays empty.                        *)
(***************************************************************************)
C2_UnboundGetFails ==
  model_ = "null" =>
    /\ the_cache_ = EmptyMap
    /\ call.op = "get" => call.threw

\* a second get on an unbound cache has thrown too
C2_Witness == model_ = "null" /\ call.op = "get" /\ call.threw /\ nCalls >= 2

(***************************************************************************)
(* C8: ComputeCrossSectionPerAtom returns exactly zero for every kinetic   *)
(* energy below max(configured threshold, 2 * A' mass), for all A and Z    *)
(* and both lepton species.                                                *)
(***************************************************************************)
C8_ZeroBelowThreshold ==
  (call.op = "compute" /\ (call.energy < threshold * GeV \/ call.energy < 2 * theAPrime))
    => call.ret = 0

\* a call between the configured threshold and twice the A' mass, where the
\* integration would have given a positive value
C8_Witness ==
  /\ call.op = "compute"
  /\ call.energy >= keV /\ call.energy >= threshold * GeV /\ call.energy < 2 * theAPrime
  /\ call.integral > 0
  /\ call.ret = 0

(***************************************************************************)
(* C9: ComputeCrossSectionPerAtom never returns a negative value: a        *)
(* negative integrated result is clamped to zero.                          *)
(***************************************************************************)
C9_NonNegative == call.op \in {"compute", "get"} => call.ret >= 0

\* a call above threshold whose integration gave a negative value
C9_Witness ==
  /\ call.op = "compute"
  /\ ~BelowThreshold(call.energy, threshold_)
  /\ call.integral < 0
  /\ call.ret = 0

\* a sample() call of scale() has returned: samplingE and data are its key and sample
Sampled == pc \in {"retry", "finish"}

\* the entry of the selected key at the index last read
EntryRead == madGraphData_[samplingE][hist[samplingE][Len(hist[samplingE])] + 1]

(***************************************************************************)
(* C3: for a requested incident energy exactly equal to a stored key,      *)
(* sample returns a sample from that exact key's sequence, also when       *)
(* larger keys exist.                                                      *)
(***************************************************************************)
C3_ExactKeySelected ==
  (Sampled /\ incident_energy \in DOMAIN madGraphData_)
    => (samplingE = incident_energy /\ data = EntryRead)

\* C3 as amended: the loop leaves a key only for a strictly larger one, so the
\* sample comes from the next larger key, and from the exact key only when that is
\* the largest.
C3_ExactKeyAmended ==
  (Sampled /\ incident_energy \in DOMAIN madGraphData_)
    => LET above == {k \in DOMAIN madGraphData_ : k > incident_energy}
       IN  /\ samplingE = IF above = {} THEN incident_energy ELSE Min(above)
           /\ data = EntryRead

\* the request equals the smaller of two keys and the larger one is sampled
C3_Witness ==
  /\ Sampled
  /\ DOMAIN madGraphData_ = EnergyKeys
  /\ incident_energy = Min(EnergyKeys)
  /\ samplingE > incident_energy
  /\ data.E = samplingE

(***************************************************************************)
(* C4: for a requested incident energy greater than all stored keys,       *)
(* sample returns a sample from the largest key's sequence.                *)
(***************************************************************************)
C4_AboveAllUsesMaxKey ==
  (Sampled /\ \A k \in DOMAIN madGraphData_ : incident_energy > k)
    => (samplingE = MaxKey(DOMAIN madGraphData_) /\ data = EntryRead)

C4_Witness ==
  /\ Sampled
  /\ DOMAIN madGraphData_ = EnergyKeys
  /\ incident_energy > MaxKey(EnergyKeys)
  /\ data.E = MaxKey(EnergyKeys)

(***************************************************************************)
(* C5: sample never scales up: whenever some stored key is greater than or *)
(* equal to the requested energy, the key sampled from is greater than or  *)
(* equal to it and no stored key lies strictly between the two.            *)
(***************************************************************************)
C5_NeverScalesUp ==
  (Sampled /\ \E k \in DOMAIN madGraphData_ : k >= incident_energy)
    => /\ samplingE >= incident_energy
       /\ data.E = samplingE
       /\ ~ \E k \in DOMAIN madGraphData_ : incident_energy < k /\ k < samplingE

\* a request below both keys is served from the smaller one
C5_Witness ==
  /\ Sampled
  /\ DOMAIN madGraphData_ = EnergyKeys
  /\ incident_energy < Min(EnergyKeys)
  /\ samplingE = Min(EnergyKeys)

(***************************************************************************)
(* C6: after a successful library load, the index used to read a key's     *)
(* sequence is always within [0, size-1] for that key, from the random     *)
(* initial cursor on, so no read fails from sample exhaustion.             *)
(***************************************************************************)
C6_IndexInRange ==
  DOMAIN madGraphData_ # {} =>
    /\ err # "out_of_range"
    /\ \A k \in DOMAIN hist : \A j \in 1..Len(hist[k]) :
         hist[k][j] >= 0 /\ hist[k][j] <= Len(madGraphData_[k]) - 1

\* the last entry of a key was read after as many reads as the key holds
C6_Witness ==
  \E k \in DOMAIN hist :
    /\ Len(madGraphData_[k]) >= 2
    /\ Len(hist[k]) = Len(madGraphData_[k])
    /\ hist[k][Len(hist[k])] = Len(madGraphData_[k]) - 1

(***************************************************************************)
(* C7: successive reads of a key return consecutive entries in stored      *)
(* order, wrapping from the last entry to the first, so N consecutive      *)
(* reads of a key of N samples return each sample exactly once, whatever   *)
(* the initial cursor.                                                     *)
(***************************************************************************)
C7_ConsecutiveWithWrap ==
  /\ \A k \in DOMAIN hist :
       LET N == Len(madGraphData_[k])
           h == hist[k]
       IN  /\ \A j \in 1..(Len(h) - 1) : h[j + 1] = (h[j] + 1) % N
           /\ Len(h) = N => {h[j] : j \in 1..N} = 0..(N - 1)
  /\ Sampled => data = EntryRead

\* a key of two samples read from its last entry on, then from its first
C7_Witness ==
  \E k \in DOMAIN hist : Len(madGraphData_[k]) = 2 /\ hist[k] = <<1, 0>>

(***************************************************************************)
(* C10: scale under the forward-only method terminates for every non-empty *)
(* library and every incident energy, also when no sample of the library   *)
(* ever satisfies pT^2 + m^2 <= E_scaled^2.                                *)
(***************************************************************************)
C10_ScaleTerminates == (pc \in {"retry", "finish"}) ~> (pc = "idle")

\* the loop gave up on a key none of whose samples is realistic
C10_Witness ==
  /\ pc = "finish" /\ diag
  /\ method_ = "ForwardOnly"
  /\ \A j \in 1..Len(madGraphData_[samplingE]) :
       Unrealistic(madGraphData_[samplingE][j], incident_energy, lepton_mass)

\* the vector scale() returned equals the recorded lepton's three-momentum
SameVector(r, d) ==
  LET c == CASE r.phi = 0 -> 1 [] r.phi = 2 -> 0 - 1 [] OTHER -> 0
      sn == CASE r.phi = 1 -> 1 [] r.phi = 3 -> 0 - 1 [] OTHER -> 0
  IN  /\ ~r.nan
      /\ d.px * d.px * r.den2 = r.pt2 * c * c /\ d.px * c >= 0
      /\ d.py * d.py * r.den2 = r.pt2 * sn * sn /\ d.py * sn >= 0
      /\ d.pz * r.cos >= 0 /\ d.pz * d.pz * r.den2 = r.mag2 - r.pt2

(***************************************************************************)
(* C11: when the forward-only retry bound is exceeded, scale emits the     *)
(* diagnostic and goes on to its return with the sample drawn last: no     *)
(* error is raised, and after the return the model is idle with its        *)
(* library and its cursors' keys as they were, ready for the next call.    *)
(***************************************************************************)
C11_GiveUpStillReturns ==
  [][/\ (diag' => /\ pc' = "finish" /\ err' = "none"
                  /\ method_' = "ForwardOnly"
                  /\ i' = maxIterations_' + 1
                  /\ data' = EntryRead')
     /\ ((diag /\ pc = "finish")
           => /\ pc' = "idle" /\ err' = "none"
              /\ madGraphData_' = madGraphData_
              /\ DOMAIN currentDataPoints_' = DOMAIN madGraphData_)]_vars

\* the loop gave up on an unrealistic sample, of which no vector can be made
C11_Witness ==
  /\ pc = "finish" /\ diag
  /\ Unrealistic(data, incident_energy, lepton_mass)
  /\ \A PhiAcc \in PhiAccs, b \in BoostedSin2 : recoil(PhiAcc, b).nan

C13_NoScalingAtReference ==
  (Sampled /\ method_ = "ForwardOnly" /\ incident_energy = data.E)
    => /\ EAccDen(data, lepton_mass) # 0
       /\ EAccNum(data, incident_energy, lepton_mass) = data.e * EAccDen(data, lepton_mass)
       /\ (pc = "finish" =>
            ENum(data, incident_energy, lepton_mass)
              = data.e * EDen(data, incident_energy, lepton_mass))

\* a request at the largest key, returned with the recorded energy and momentum
C13_Witness ==
  /\ pc = "finish" /\ method_ = "ForwardOnly"
  /\ incident_energy = data.E
  /\ perp(data) > 0
  /\ \E PhiAcc \in PhiAccs, b \in BoostedSin2 :
       LET r == recoil(PhiAcc, b)
       IN  ~r.nan /\ r.mag2 = (data.e * data.e - lepton_mass * lepton_mass) * r.den2

(***************************************************************************)
(* C14: for all three methods and every sample, the vector scale returns   *)
(* has the magnitude sqrt(E^2 - m^2), E the energy the method computed and *)
(* m the supplied lepton mass (wherever E^2 - m^2 has a square root, for   *)
(* an incident energy above the masses of the lepton and the A').          *)
(***************************************************************************)
C14_MagnitudeLaw ==
  (pc = "finish" /\ incident_energy > lepton_mass + MA)
    => \A PhiAcc \in PhiAccs, b \in BoostedSin2 :
         LET r == recoil(PhiAcc, b)
             num == ENum(data, incident_energy, lepton_mass)
             den == EDen(data, incident_energy, lepton_mass)
         IN  (den # 0 /\ num * num - lepton_mass * lepton_mass * den * den >= 0)
               => /\ ~r.nan
                  /\ r.mag2 * den * den
                       = (num * num - lepton_mass * lepton_mass * den * den) * r.den2

(***************************************************************************)
(* C15: the constructor either fails with an error or leaves a model whose *)
(* cursors have exactly the keys of the library and whose every key holds  *)
(* at least one sample; a library that was loaded has at least one key,    *)
(* and a model with an empty library never gets a sample out of sample().  *)
(***************************************************************************)
C15_LoadedLibraryNonEmpty ==
  /\ pc = "failed" => err = "runtime_error"
  /\ (pc \in {"idle", "retry", "finish"}
       => /\ DOMAIN currentDataPoints_ = DOMAIN madGraphData_
          /\ \A k \in DOMAIN madGraphData_ : Len(madGraphData_[k]) >= 1)
  /\ DOMAIN madGraphData_ = {} => ~Sampled
  /\ (DOMAIN madGraphData_ = {} /\ pc = "idle") => err \in {"none", "out_of_range"}

\* a library of every key right after its load
C15_Witness ==
  /\ pc = "idle" /\ err = "none"
  /\ DOMAIN madGraphData_ = EnergyKeys
  /\ DOMAIN currentDataPoints_ = EnergyKeys
  /\ \A k \in EnergyKeys : hist[k] = <<>> /\ currentDataPoints_[k] < Len(madGraphData_[k])

\* the step is a call that returned or threw
Called(op) == nCalls' # nCalls /\ call'.op = op

(***************************************************************************)
(* C16: an access to the A' before it has been given a mass throws and     *)
(* creates no particle definition; once the A' exists, every access        *)
(* returns that one instance, with the mass it was first configured with.  *)
(***************************************************************************)
C16_AccessNeedsInitialization ==
  [][/\ ((Called("APrime") /\ theAPrime = NoAPrime /\ call'.mass < 0)
          => (call'.threw /\ theAPrime' = NoAPrime))
     /\ ((Called("APrime") /\ theAPrime # NoAPrime)
          => (~call'.threw /\ call'.ret = theAPrime))
     /\ (theAPrime # NoAPrime => theAPrime' = theAPrime)
     /\ ((pc = "new" /\ pc' # "new" /\ theAPrime = NoAPrime)
          => (pc' = "failed" /\ err' = "runtime_error"))]_vars

\* the third call is an access, made after an access that threw and a call that
\* configured the A', and it returns the configured mass
C16_Witness ==
  /\ nCalls = 3
  /\ call.op = "APrime" /\ call.mass < 0 /\ ~call.threw
  /\ call.ret = theAPrime /\ theAPrime = GeV

C18_OnlyOnePerEvent ==
  only_one_per_event_
    => /\ nBrems <= 1
       /\ (nBrems = 1 \/ pc \in {"retry", "finish"}) => ~DarkBremActive
       /\ \A j \in 1..Len(processList) :
            ~contains(processList[j].name) => processList[j].active

\* the one dark brem of an event is done and the process is inactive
C18_Witness ==
  /\ only_one_per_event_ /\ nBrems = 1 /\ pc = "idle"
  /\ aParticleChange.status = "fStopAndKill"
  /\ ~DarkBremActive
  /\ \E j \in 1..Len(processList) : processList[j].active

(***************************************************************************)
(* C19: for every interaction GenerateChange generates, the momentum of    *)
(* the A' is the momentum of the track minus the rotated momentum of the   *)
(* recoil lepton, so the two secondaries together carry the momentum of    *)
(* the incident lepton.                                                    *)
(***************************************************************************)
C19_MomentumConserved ==
  aParticleChange.status = "fStopAndKill"
    => LET dphoton == aParticleChange.secondaries[1].p
           el == aParticleChange.secondaries[2].p
           incident == GetMomentum(track, Min(LeptonMasses))
       IN  /\ ~dphoton.nan /\ ~el.nan
           /\ dphoton = Minus(incident, el)
           /\ Plus(dphoton, el) = incident

\* the workers that have touched a location
Touched(loc) == accessed[loc].r \cup accessed[loc].w

Truncated(c) == <<Trunc(c.energy), Trunc(c.A), Trunc(c.Z)>>

(***************************************************************************)
(* C21: stream writes exactly one row per cache entry, and the row of an   *)
(* entry carries the integer-truncated (A, Z, energy) of the get call that *)
(* created the entry, paired with the stored cross section.                *)
(***************************************************************************)
C21_StreamRowsAreInputs ==
  /\ Cardinality(stream(the_cache_)) = Cardinality(DOMAIN the_cache_)
  /\ (call.op = "get" /\ ~call.threw /\ ~call.hit)
       => Row(call.key, the_cache_[call.key])
            = [A |-> Trunc(call.A), Z |-> Trunc(call.Z), E |-> Trunc(call.energy),
               xsec |-> call.ret]

(***************************************************************************)
(* C27: the packed key is injective on truncated inputs: two get calls     *)
(* whose integer-truncated (energy, A, Z) differ never map to the same     *)
(* cache entry, energies of MAX_E MeV or more included.                    *)
(***************************************************************************)
C27_KeyInjective ==
  [][(call.op = "get" /\ Called("get") /\ Truncated(call) # Truncated(call'))
       => call'.key # call.key]_vars

C23_MaxIterationsBoundsDraws ==
  /\ (pc \in {"idle", "retry", "finish"} /\ madGraphData_ # EmptyMap)
       => maxIterations_ = Min({10000} \cup {Len(madGraphData_[k]) : k \in DOMAIN madGraphData_})
  /\ pc \in {"retry", "finish"} => i <= maxIterations_

C26_SampleFrame ==
  [][pc # "new"
       => /\ madGraphData_' = madGraphData_
          /\ DOMAIN currentDataPoints_' = DOMAIN currentDataPoints_
          /\ \A k \in DOMAIN currentDataPoints_ :
               k # samplingE' => currentDataPoints_'[k] = currentDataPoints_[k]]_vars

\* a library of two keys whose cursors have both been moved by sample reads, the
\* last one a replacement draw of the scaling loop
C26_Witness ==
  /\ Cardinality(DOMAIN currentDataPoints_) = 2
  /\ \A k \in DOMAIN hist : hist[k] # <<>>
  /\ DOMAIN hist = DOMAIN currentDataPoints_
  /\ pc \in {"retry", "finish"} /\ i >= 1
  /\ samplingE \in DOMAIN currentDataPoints_

(***************************************************************************)
(* C29: under the forward-only method, whenever scale returns without the  *)
(* give-up diagnostic, the sample it uses is kinematically valid:          *)
(* pT^2 + m^2 <= E_scaled^2.                                               *)
(***************************************************************************)
C29_NoDiagnosticMeansValid ==
  (method_ = "ForwardOnly" /\ pc = "finish" /\ ~diag)
    => LET den == EAccDen(data, lepton_mass)
           num == EAccNum(data, incident_energy, lepton_mass)
           pT2 == data.px * data.px + data.py * data.py
       IN  den # 0 /\ (pT2 + lepton_mass * lepton_mass) * den * den <= num * num

\* a forward-only scale above the production threshold about to return, without
\* diagnostic, the replacement of a sample that was not valid
C29_Witness ==
  /\ method_ = "ForwardOnly" /\ pc = "finish" /\ ~diag
  /\ i >= 1
  /\ incident_energy > lepton_mass + MA
  /\ \E k \in DOMAIN madGraphData_ : \E j \in 1..Len(madGraphData_[k]) :
       perp(madGraphData_[k][j]) > 0

\* n[1] * xsecs[1] + ... + n[j] * xsecs[j] over the elements of a material
RECURSIVE WeightedSum(_, _, _)
WeightedSum(material, xsecs, j) ==
  IF j = 0 THEN 0 ELSE WeightedSum(material, xsecs, j - 1) + material[j].n * xsecs[j]

(***************************************************************************)
(* C25: GetMeanFreePath returns DBL_MAX when the track's particle is not   *)
(* the configured lepton or when the total cross section (global_bias      *)
(* times the sum over the material's elements of atoms per volume times    *)
(* per-atom cross section) is not above DBL_MIN; otherwise it returns      *)
(* exactly the inverse of that total.                                      *)
(***************************************************************************)
C25_MeanFreePath ==
  (call.op = "GetMeanFreePath" /\ ~call.threw)
    => IF ~IsApplicable(call.def)
       THEN call.ret.max /\ call.xsecs = <<>>
       ELSE LET total == global_bias_
                           * WeightedSum(call.material, call.xsecs, Len(call.material))
            IN  /\ Len(call.xsecs) = Len(call.material)
                /\ \A j \in 1..Len(call.xsecs) : call.xsecs[j] >= 0
                /\ IF total <= 0 THEN call.ret.max
                   ELSE ~call.ret.max /\ call.ret.num * total = call.ret.den

\* a biased query in a material of two elements with a total above zero
C25_Witness ==
  /\ call.op = "GetMeanFreePath" /\ ~call.threw
  /\ IsApplicable(call.def)
  /\ Len(call.material) = 2 /\ global_bias_ = 2
  /\ \A j \in 1..Len(call.xsecs) : call.xsecs[j] > 0
  /\ ~call.ret.max /\ call.ret.den = 2 * (2 * call.xsecs[1] + call.xsecs[2])

(***************************************************************************)
(* C28: with caching, the threshold guarantee of the estimator is          *)
(* preserved: for any sequence of queries, a cache get at a kinetic energy *)
(* below the effective threshold returns a zero cross section.             *)
(***************************************************************************)
C28_CachedZeroBelowThreshold ==
  (call.op = "get" /\ ~call.threw
     /\ (call.energy < threshold * GeV \/ call.energy < 2 * theAPrime))
    => call.ret = 0

(***************************************************************************)
(* C30: GetMeanFreePath never triggers the unbound-cache error: with       *)
(* cache_xsec the cache was bound to the model at construction; without it *)
(* the estimator is called directly and the cache stays unbound and empty. *)
(***************************************************************************)
C30_NoUnboundCacheError ==
  /\ call.op = "GetMeanFreePath" => ~call.threw
  /\ processList # <<>> =>
       IF cache_xsec_ THEN model_ = "model"
       ELSE model_ = "null" /\ the_cache_ = EmptyMap /\ computed = EmptyMap

\* a process without cache has answered a second query, above threshold, from the
\* estimator
C30_Witness ==
  /\ processList # <<>> /\ ~cache_xsec_
  /\ call.op = "GetMeanFreePath" /\ ~call.threw
  /\ nCalls >= 2
  /\ ~call.ret.max
  /\ the_cache_ = EmptyMap

====
